---- MODULE Spec2Model ----
(***************************************************************************)
(* Model of the stock dashboard: the Streamlit page script (main.py), the  *)
(* market-data handler (modules/data_handler.py) and the comparison chart  *)
(* builder (modules/charts.py).                                            *)
(*                                                                         *)
(* Conventions.  The session clock (datetime.now() of the loop and the     *)
(* timer of the cache) ticks in whole seconds.  A Python dict is a         *)
(* function whose DOMAIN is the set of keys present; None is the record    *)
(* None.  Fractional numbers (percentages) are integers counted in         *)
(* hundredths, so 1.0 is Hundredths and 0.05 is 5.  A formatted string is  *)
(* the tuple of its pieces.                                                *)
(***************************************************************************)
EXTENDS Integers, Sequences, FiniteSets, TLC

\* ------------------------------------------------------------------------
\* Bounds of the model
\* ------------------------------------------------------------------------
MaxSlack == 12            \* the clock runs up to one day plus this many seconds
MaxReruns == 1            \* widget interactions explored in one session
MaxChartLen == 2          \* longest value column given to the chart builder alone

\* ------------------------------------------------------------------------
\* Program constants
\* ------------------------------------------------------------------------
SecondsPerDay == 86400    \* timedelta.seconds is the remainder modulo one day
Hundredths == 100         \* the number 1.0 in the model's fixed-point unit
BACKOFF == 10             \* time.sleep(10) of the loop's except branch
CACHE_TTL == 7            \* modules.config.CACHE_TTL (seconds)
OPEN_TOD == 9 * 3600 + 15 * 60      \* now.replace(hour=9, minute=15, second=0)
CLOSE_TOD == 15 * 3600 + 30 * 60    \* now.replace(hour=15, minute=30, second=0)

MaxClock == SecondsPerDay + MaxSlack

ALL_TICKERS ==
  << "RELIANCE.NS", "TCS.NS", "HDFCBANK.NS", "INFY.NS", "ICICIBANK.NS", "LT.NS",
     "SBIN.NS", "ITC.NS", "AXISBANK.NS", "KOTAKBANK.NS", "WIPRO.NS", "ONGC.NS",
     "BHARTIARTL.NS", "BAJFINANCE.NS" >>

\* ------------------------------------------------------------------------
\* Python values
\* ------------------------------------------------------------------------
None == [none |-> TRUE]
EmptyDict == [k \in {} |-> None]

Range(s) == { s[i] : i \in DOMAIN s }

\* d.get(k, default)
DictGet(d, k, default) == IF k \in DOMAIN d THEN d[k] ELSE default

\* d[k] = v
DictSet(d, k, v) == [x \in (DOMAIN d) \cup {k} |-> IF x = k THEN v ELSE d[x]]

\* bool(x) of a dict-or-None value: None and the empty dict are false
Truthy(x) == x # None /\ DOMAIN x # {}

\* [x for x in s if Keep(x)]
RECURSIVE SelectSeqOf(_, _)
SelectSeqOf(s, keep) ==
  IF s = << >> THEN << >>
  ELSE (IF Head(s) \in keep THEN << Head(s) >> ELSE << >>) \o SelectSeqOf(Tail(s), keep)

\* ------------------------------------------------------------------------
\* The market-data provider (yfinance), as the handler sees it
\* ------------------------------------------------------------------------
\* Answers of Ticker.history(period='1d', interval='1m', prepost=True):
\* an exception, or a table of minute bars (possibly empty).
Raises == [raises |-> TRUE, closes |-> << >>, time |-> 0, volume |-> 0]
NoBars == [raises |-> FALSE, closes |-> << >>, time |-> 0, volume |-> 0]
OneBar == [raises |-> FALSE, closes |-> << 100 >>, time |-> 1, volume |-> 10]
TwoBars == [raises |-> FALSE, closes |-> << 100, 105 >>, time |-> 2, volume |-> 20]
LiveAnswers == { Raises, NoBars, OneBar, TwoBars }
LoopLiveAnswers == { Raises, OneBar, TwoBars }

\* Answers of yf.download(...): an exception, an empty table, or a table.
HistAnswers == { "raise", "empty", "table1", "table2" }
LoopHistAnswers == { "raise", "table1" }
CacheHistAnswers == { "empty", "table1" }

\* Answers of Ticker.info inside get_stock_metrics: an exception, or the info
\* dict; an int value is tagged, a key may be absent or hold None.  A market
\* capitalisation is the pair hi, lo standing for hi * 10^6 + lo, lo < 10^6.
PyInt(n) == [int |-> n]
PyBig(hi, lo) == [hi |-> hi, lo |-> lo]
InfoRaises == [raises |-> TRUE, info |-> EmptyDict]
InfoFull == [raises |-> FALSE,
             info |-> DictSet(DictSet(DictSet(EmptyDict, "marketCap", PyBig(3200, 0)),
                                      "trailingPE", PyInt(21)),
                              "volume", PyInt(1234567))]
InfoBare == [raises |-> FALSE, info |-> EmptyDict]
InfoFallbacks == [raises |-> FALSE,
                  info |-> DictSet(DictSet(EmptyDict, "forwardPE", PyInt(15)),
                                   "averageVolume", PyInt(5000))]
InfoNones == [raises |-> FALSE,
              info |-> DictSet(DictSet(DictSet(EmptyDict, "marketCap", None),
                                       "trailingPE", None),
                               "volume", None)]
MetricAnswers == { InfoRaises, InfoFull, InfoBare, InfoFallbacks, InfoNones }
LoopMetricAnswers == { InfoRaises, InfoFull }

\* ------------------------------------------------------------------------
\* modules/data_handler.py
\* ------------------------------------------------------------------------
\* get_live_price(ticker): the snapshot built from the minute bars, None when
\* the provider raises (caught, warning) or returns no bars.  pct_change is
\* ((last - prev) / prev) * 100, kept in hundredths of a percent.
get_live_price(answer) ==
  IF answer.raises THEN None
  ELSE IF answer.closes = << >> THEN None
  ELSE LET n == Len(answer.closes)
           last == answer.closes[n]
       IN [ price |-> last,
            time |-> answer.time,
            change |-> IF n > 1 THEN last - answer.closes[n - 1] ELSE 0,
            pct_change |-> IF n > 1
                           THEN ((last - answer.closes[n - 1]) * 100 * Hundredths)
                                   \div answer.closes[n - 1]
                           ELSE 0,
            volume |-> answer.volume ]

\* A Python str is the tuple of its pieces; a Python bool is tagged.
PyStr(pieces) == [str |-> pieces]
PyBool(b) == [bool |-> b]

\* bool(x) of a str-or-bool value: a str is true when it is not empty
PyTruth(x) == IF "bool" \in DOMAIN x THEN x.bool ELSE x.str # << >>

\* A dict literal with two items, in insertion order.
Dict2(k1, v1, k2, v2) == << << k1, v1 >>, << k2, v2 >> >>

\* d[key] of such a dict
ItemOf(d, key) == d[CHOOSE i \in DOMAIN d : d[i][1] = key][2]

\* get_market_status(): ist is datetime.now(ist) as [weekday |-> 0..6 (Monday
\* = 0), tod |-> second of the day, micro |-> microseconds into that second].
\* opening_time and closing_time have no microseconds, so now < opening_time
\* when tod < OPEN_TOD, and now > closing_time when tod > CLOSE_TOD or the
\* second of CLOSE_TOD has begun.  time_left.seconds drops the fraction.
get_market_status(ist) ==
  LET part == IF ist.micro > 0 THEN 1 ELSE 0
  IN IF ist.weekday >= 5
     THEN Dict2("is_open", PyBool(FALSE), "status", PyStr(<< "Closed (Weekend)" >>))
     ELSE IF ist.tod < OPEN_TOD
     THEN LET time_left == OPEN_TOD - ist.tod - part
          IN Dict2("is_open", PyBool(FALSE),
                   "status", PyStr(<< "Opens in ", time_left \div 3600, "h ",
                                      (time_left \div 60) % 60, "m" >>))
     ELSE IF ist.tod > CLOSE_TOD \/ (ist.tod = CLOSE_TOD /\ ist.micro > 0)
     THEN Dict2("is_open", PyBool(FALSE), "status", PyStr(<< "Closed" >>))
     ELSE LET time_left == CLOSE_TOD - ist.tod - part
          IN Dict2("is_open", PyBool(TRUE),
                   "status", PyStr(<< "Open (", time_left \div 3600, "h ",
                                      (time_left \div 60) % 60, "m left)" >>))

\* f"{n:,.0f}" of a non-negative integer: the groups of three digits
RECURSIVE Grouped(_)
Grouped(n) == IF n < 1000 THEN << n >> ELSE Grouped(n \div 1000) \o << ",", n % 1000 >>

\* the pieces of f"{h / 100:.2f}" for a count h of hundredths
TwoDecimals(h) == << h \div 100, ".", (h % 100) \div 10, h % 10 >>

\* 2^s mod 25
RECURSIVE Pow2Mod25(_)
Pow2Mod25(s) == IF s = 0 THEN 1 ELSE (2 * Pow2Mod25(s - 1)) % 25

\* the binary exponent of the double n / 200: the k with 2^k <= n / 200 < 2^(k+1)
RECURSIVE BinaryExponent(_)
BinaryExponent(n) ==
  IF n >= 400 THEN BinaryExponent(n \div 2) + 1
  ELSE IF n < 200 THEN BinaryExponent(2 * n) - 1
  ELSE 0

\* market_cap / 1eN is a double.  When the quotient is n / 200 with n odd,
\* half-way between two hundredths, the double is the nearest multiple of
\* 2^(k-52): its 53-bit significand is n * 2^(49-k) / 25 rounded to an
\* integer, so the remainder of that division tells on which side of the
\* quotient the double lies.
DoubleOfTie(n) ==
  LET r == ((n % 25) * Pow2Mod25(49 - BinaryExponent(n))) % 25
  IN IF r = 0 THEN "equal" ELSE IF r <= 12 THEN "below" ELSE "above"

\* the hundredths written by f"{x:.2f}" for the double x nearest to a
\* quotient, given the floor of the quotient in hundredths and how its
\* remainder compares with half a hundredth: :.2f rounds the double itself,
\* ties to even
RoundTo(floor, above_half, at_half) ==
  IF above_half THEN floor + 1
  ELSE IF at_half
  THEN LET side == DoubleOfTie(2 * floor + 1)
       IN IF side = "above" \/ (side = "equal" /\ floor % 2 = 1) THEN floor + 1 ELSE floor
  ELSE floor

\* the hundredths written by f"{num / den:.2f}", for num >= 0 and den > 0
RoundQuotient(num, den) ==
  RoundTo(num \div den, 2 * (num % den) > den, 2 * (num % den) = den)

\* format_market_cap with the "M" suffix given from 1e5 on
format_market_cap_tenth(market_cap) ==
  IF \/ market_cap = None
     \/ market_cap = PyStr(<< "N/A" >>)
     \/ (market_cap.hi = 0 /\ market_cap.lo = 0)
  THEN PyStr(<< "N/A" >>)
  ELSE IF market_cap.hi >= 1000000
  THEN LET b == market_cap.hi % 10000
           h == RoundTo(market_cap.hi \div 10000,
                        b > 5000 \/ (b = 5000 /\ market_cap.lo > 0),
                        b = 5000 /\ market_cap.lo = 0)
       IN PyStr(<< "₹" >> \o TwoDecimals(h) \o << "T" >>)
  ELSE IF market_cap.hi >= 1000
  THEN LET r == (market_cap.hi % 10) * 1000000 + market_cap.lo
           h == RoundTo(market_cap.hi \div 10, r > 5000000, r = 5000000)
       IN PyStr(<< "₹" >> \o TwoDecimals(h) \o << "B" >>)
  ELSE IF market_cap.hi >= 1
  THEN LET h == RoundQuotient(market_cap.hi * 1000000 + market_cap.lo, 10000)
       IN PyStr(<< "₹" >> \o TwoDecimals(h) \o << "M" >>)
  ELSE IF market_cap.lo >= 100000
  THEN LET h == RoundQuotient(market_cap.lo, 10000)
       IN PyStr(<< "₹" >> \o TwoDecimals(h) \o << "M" >>)
  ELSE PyStr(<< "₹" >> \o Grouped(market_cap.lo))

\* format_market_cap(market_cap)
format_market_cap(market_cap) ==
  IF \/ market_cap = None
     \/ market_cap = PyStr(<< "N/A" >>)
     \/ (market_cap.hi = 0 /\ market_cap.lo = 0)
  THEN PyStr(<< "N/A" >>)
  ELSE IF market_cap.hi >= 1000000
  THEN LET b == market_cap.hi % 10000
           h == RoundTo(market_cap.hi \div 10000,
                        b > 5000 \/ (b = 5000 /\ market_cap.lo > 0),
                        b = 5000 /\ market_cap.lo = 0)
       IN PyStr(<< "₹" >> \o TwoDecimals(h) \o << "T" >>)
  ELSE IF market_cap.hi >= 1000
  THEN LET r == (market_cap.hi % 10) * 1000000 + market_cap.lo
           h == RoundTo(market_cap.hi \div 10, r > 5000000, r = 5000000)
       IN PyStr(<< "₹" >> \o TwoDecimals(h) \o << "B" >>)
  ELSE IF market_cap.hi >= 1
  THEN LET h == RoundQuotient(market_cap.hi * 1000000 + market_cap.lo, 10000)
       IN PyStr(<< "₹" >> \o TwoDecimals(h) \o << "M" >>)
  ELSE PyStr(<< "₹" >> \o Grouped(market_cap.lo))

\* format_volume(volume)
format_volume(volume) ==
  IF \/ volume = None
     \/ volume = PyStr(<< "N/A" >>)
     \/ volume.int = 0
  THEN PyStr(<< "N/A" >>)
  ELSE PyStr(Grouped(volume.int))

\* get_stock_metrics(ticker): the fields the page reads of the metrics record,
\* None when the provider raises (caught, warning).
get_stock_metrics(answer) ==
  IF answer.raises THEN None
  ELSE LET info == answer.info
       IN [ MarketCap |-> format_market_cap(DictGet(info, "marketCap", None)),
            PERatio |-> DictGet(info, "trailingPE",
                                DictGet(info, "forwardPE", PyStr(<< "N/A" >>))),
            Volume |-> format_volume(DictGet(info, "volume",
                                             DictGet(info, "averageVolume",
                                                     PyStr(<< "N/A" >>)))) ]

\* ------------------------------------------------------------------------
\* get_stock_data behind @st.cache_data(ttl=CACHE_TTL)
\* ------------------------------------------------------------------------
\* The body of get_stock_data: the table, None when the provider raises
\* (caught, error notice) or the table is empty.
get_stock_data(answer) ==
  IF answer = "raise" THEN "None"
  ELSE IF answer = "empty" THEN "None"
  ELSE answer

\* The cache maps an argument tuple to [value, stored], stored being the clock
\* when the body ran.  An entry is served while less than CACHE_TTL seconds old.
CacheHit_forever(cache, key, t) == key \in DOMAIN cache

CacheHit(cache, key, t) == key \in DOMAIN cache /\ t - cache[key].stored < CACHE_TTL

\* The entries still alive at clock t.
Unexpired(cache, t) ==
  [k \in { x \in DOMAIN cache : t - cache[x].stored < CACHE_TTL } |-> cache[k]]

\* One call of the decorated function at clock t: the value returned, whether
\* the provider was called, and the cache afterwards.
cached_get_stock_data(cache, key, t, answer) ==
  IF CacheHit(cache, key, t)
  THEN [ value |-> cache[key].value, fetched |-> FALSE, cache |-> Unexpired(cache, t) ]
  ELSE LET v == get_stock_data(answer)
       IN [ value |-> v, fetched |-> TRUE,
            cache |-> DictSet(Unexpired(cache, t), key, [value |-> v, stored |-> t]) ]

\* ------------------------------------------------------------------------
\* modules/charts.py
\* ------------------------------------------------------------------------
\* df[y_col].max() of a non-empty column
RECURSIVE SeqMax(_)
SeqMax(col) ==
  IF Len(col) = 1 THEN col[1]
  ELSE LET m == SeqMax(Tail(col)) IN IF col[1] >= m THEN col[1] ELSE m

\* create_comparison_chart: the plotted value column (hundredths).  The column
\* is multiplied by 100 when its maximum is at most 1.
create_comparison_chart(col) ==
  IF SeqMax(col) <= Hundredths
  THEN [i \in DOMAIN col |-> col[i] * 100]
  ELSE col

\* ------------------------------------------------------------------------
\* main.py: sidebar
\* ------------------------------------------------------------------------
\* t.strip() and t.upper() on the tokens the model types into the text box
strip(t) ==
  CASE t = "" -> ""
    [] t = " " -> ""
    [] t = " reliance.ns" -> "reliance.ns"
    [] t = "TCS.NS " -> "TCS.NS"

upper(t) ==
  CASE t = "reliance.ns" -> "RELIANCE.NS"
    [] t = "TCS.NS" -> "TCS.NS"

\* [t.strip().upper() for t in manual_input.split(",") if t.strip()];
\* manual_input is given as the tuple of its comma-separated tokens
RECURSIVE custom_tickers(_)
custom_tickers(tokens) ==
  IF tokens = << >> THEN << >>
  ELSE (IF strip(Head(tokens)) # "" THEN << upper(strip(Head(tokens))) >> ELSE << >>)
          \o custom_tickers(Tail(tokens))

\* options of the "Popular Stocks" multiselect
popular_options(defaults) == SelectSeqOf(ALL_TICKERS, Range(ALL_TICKERS) \ Range(defaults))

\* ticker_list = DEFAULT_TICKERS + additional_tickers + custom_tickers
effective_ticker_list(defaults, additional, tokens) ==
  defaults \o additional \o custom_tickers(tokens)

\* is_market_open, market_status_text = get_market_status(): unpacking a
\* dict iterates over its keys
unpack(d) == << PyStr(<< d[1][1] >>), PyStr(<< d[2][1] >>) >>

\* ------------------------------------------------------------------------
\* main.py: update_live_data
\* ------------------------------------------------------------------------
\* (current_time - last_update).seconds
timedelta_seconds(current_time, last) == (current_time - last) % SecondsPerDay

should_refresh_always(current_time, last, rate) == TRUE

\* the guard of update_live_data
should_refresh(current_time, last, rate) == timedelta_seconds(current_time, last) >= rate

\* the entry recorded for a snapshot
entry_of(live_data) ==
  [ price |-> live_data.price, change |-> live_data.change,
    pct_change |-> live_data.pct_change, time |-> live_data.time ]

RECURSIVE new_data_abort(_, _, _)
new_data_abort(tickers, results, n) ==
  IF n = 0 THEN EmptyDict
  ELSE IF results[n] # None
       THEN DictSet(new_data_abort(tickers, results, n - 1), tickers[n], entry_of(results[n]))
       ELSE EmptyDict

\* new_data after the first n tickers of the for loop; results[i] is what
\* get_live_price returned for the i-th ticker
RECURSIVE new_data(_, _, _)
new_data(tickers, results, n) ==
  IF n = 0 THEN EmptyDict
  ELSE IF results[n] # None
       THEN DictSet(new_data(tickers, results, n - 1), tickers[n], entry_of(results[n]))
       ELSE new_data(tickers, results, n - 1)

\* the tail of update_live_data with the `if new_data:` test dropped
store_new_data_always(fresh, prices, stamp, current_time) ==
  [ price_data |-> fresh, last_update |-> current_time ]

\* `if new_data:` price_data = new_data, last_update = current_time; the
\* session state after the fetching branch of update_live_data
store_new_data(fresh, prices, stamp, current_time) ==
  IF Truthy(fresh)
  THEN [ price_data |-> fresh, last_update |-> current_time ]
  ELSE [ price_data |-> prices, last_update |-> stamp ]

\* ------------------------------------------------------------------------
\* main.py: card and comparison rendering
\* ------------------------------------------------------------------------
\* the cards drawn by the for loop over enumerate(ticker_list)
RECURSIVE stock_cards(_, _, _)
stock_cards(tickers, prices, n) ==
  IF n = 0 THEN << >>
  ELSE stock_cards(tickers, prices, n - 1) \o
       (IF Truthy(DictGet(prices, tickers[n], None))
        THEN << [ col |-> n, ticker |-> tickers[n], price |-> prices[tickers[n]].price,
                  change |-> prices[tickers[n]].change,
                  pct_change |-> prices[tickers[n]].pct_change ] >>
        ELSE << >>)

\* if price_data and metrics
row_qualifies(price, metrics) == Truthy(price) /\ metrics # None

RECURSIVE comparison_rows_skip(_, _, _, _)
comparison_rows_skip(tickers, prices, metrics, n) ==
  IF n <= 1 THEN << >>
  ELSE LET price == DictGet(prices, tickers[n], EmptyDict)
       IN comparison_rows_skip(tickers, prices, metrics, n - 1) \o
          (IF row_qualifies(price, metrics[n])
           THEN << [ Symbol |-> tickers[n], Price |-> price.price,
                     Change |-> price.pct_change, MarketCap |-> metrics[n].MarketCap,
                     PERatio |-> metrics[n].PERatio, Volume |-> metrics[n].Volume ] >>
           ELSE << >>)

\* comparison_data after the first n tickers of the for loop; metrics[i] is
\* what get_stock_metrics returned for the i-th ticker
RECURSIVE comparison_rows(_, _, _, _)
comparison_rows(tickers, prices, metrics, n) ==
  IF n = 0 THEN << >>
  ELSE LET price == DictGet(prices, tickers[n], EmptyDict)
       IN comparison_rows(tickers, prices, metrics, n - 1) \o
          (IF row_qualifies(price, metrics[n])
           THEN << [ Symbol |-> tickers[n], Price |-> price.price,
                     Change |-> price.pct_change, MarketCap |-> metrics[n].MarketCap,
                     PERatio |-> metrics[n].PERatio, Volume |-> metrics[n].Volume ] >>
           ELSE << >>)

\* the handler of the loop's except branch sleeps this long
handler_pause_rate(rate) == rate

handler_pause(rate) == BACKOFF

\* ------------------------------------------------------------------------
\* Inputs of the model
\* ------------------------------------------------------------------------
\* modules.config.DEFAULT_TICKERS, as deployed
DefaultChoices == { << >>, << "RELIANCE.NS" >> }

\* what the user sets in the sidebar
PopularChoices == { << >>, << "TCS.NS" >> }
ManualChoices == { << "" >>, << " reliance.ns", " " >> }
RefreshRates == { 5, 10 }
DateRanges == { << 0, 365 >>, << 100, 365 >> }
SidebarChoices ==
  { c \in [ additional : PopularChoices, manual : ManualChoices,
            rate : RefreshRates, dates : DateRanges ] :
      c.additional = << >> \/ c.manual = << "" >> }
LoopChoices == { c \in SidebarChoices : c.dates = << 0, 365 >> }

\* India Standard Time clock readings: every weekday, around both session
\* boundaries and the ends of the day
BoundaryTods ==
  { 0, OPEN_TOD - 3601, OPEN_TOD - 60, OPEN_TOD - 1, OPEN_TOD, OPEN_TOD + 1,
    CLOSE_TOD - 3600, CLOSE_TOD - 61, CLOSE_TOD - 1, CLOSE_TOD, CLOSE_TOD + 1,
    CLOSE_TOD + 60, SecondsPerDay - 1 }
StatusClocks == [ weekday : 0 .. 6, tod : BoundaryTods, micro : { 0, 1 } ]
LoopClocks == { [ weekday |-> 0, tod |-> OPEN_TOD, micro |-> 0 ] }

\* time.sleep returns after at least the time asked for
Overshoots == { 0, SecondsPerDay - 1 }
\* how far into a pause the user touches a widget
PartialSleeps == { 0, 2 }

\* the clock readings the model explores: the first seconds of the session
\* and the first seconds one day later
ClockValues == (0 .. MaxSlack) \cup (SecondsPerDay .. MaxClock)

\* ------------------------------------------------------------------------
\* State
\* ------------------------------------------------------------------------
VARIABLES
  DEFAULT_TICKERS,     \* modules.config.DEFAULT_TICKERS
  now,                 \* datetime.now() / the cache's timer, in seconds
  session_ready,       \* 'price_data' in st.session_state
  price_data,          \* st.session_state.price_data
  last_update,         \* st.session_state.last_update
  ist_now,             \* datetime.now(ist) read by the page run
  market,              \* the dict get_market_status returned to the page run
  is_market_open,      \* main.py's is_market_open
  market_status_text,  \* main.py's market_status_text (the badge)
  slider_disabled,     \* disabled= of the refresh-rate slider
  ticker_list,         \* main.py's ticker_list
  refresh_rate,        \* main.py's refresh_rate
  date_range,          \* << start_date, end_date >>
  pc,                  \* position of the script
  live,                \* what update_live_data did in this iteration
  cards,               \* the cards drawn in this iteration
  main,                \* what display_main_content did in this iteration
  notice,              \* the st.error of the loop's except branch
  slept,               \* argument of the last time.sleep
  reruns,              \* reruns of the page script so far
  hist_cache,          \* st.cache_data's store for get_stock_data
  hist_call,           \* the last call of get_stock_data
  hist_seen,           \* per argument tuple: the latest call less than CACHE_TTL old
  chart_in,            \* value column last given to create_comparison_chart
  chart_out,           \* value column it plotted
  fmt_in,              \* market cap last given to format_market_cap
  fmt_out              \* text it returned, None before the first call

session_vars == << session_ready, price_data, last_update >>
page_vars == << ist_now, market, is_market_open, market_status_text, slider_disabled,
                ticker_list, refresh_rate, date_range >>
cycle_vars == << live, cards, main >>
hist_vars == << hist_cache, hist_call, hist_seen >>
chart_vars == << chart_in, chart_out >>
fmt_vars == << fmt_in, fmt_out >>
vars == << DEFAULT_TICKERS, now, session_vars, page_vars, pc, cycle_vars, notice, slept, reruns,
           hist_vars, chart_vars, fmt_vars >>

NoLive == [ ran |-> FALSE, fetched |-> FALSE, replaced |-> FALSE, at |-> 0, since |-> 0,
            before |-> EmptyDict, results |-> << >> ]
NoCards == [ ran |-> FALSE, cards |-> << >> ]
NoMain == [ ran |-> FALSE, shown |-> FALSE, metrics |-> << >>, rows |-> << >> ]
NoCall == [ made |-> FALSE, key |-> << >>, at |-> 0, fetched |-> FALSE, value |-> "None",
            prior |-> None ]

Init ==
  /\ DEFAULT_TICKERS \in DefaultChoices
  /\ now = 0
  /\ session_ready = FALSE
  /\ price_data = EmptyDict
  /\ last_update = 0
  /\ ist_now = [ weekday |-> 0, tod |-> 0, micro |-> 0 ]
  /\ market = << >>
  /\ is_market_open = PyStr(<< >>)
  /\ market_status_text = PyStr(<< >>)
  /\ slider_disabled = FALSE
  /\ ticker_list = << >>
  /\ refresh_rate = 5
  /\ date_range = << 0, 365 >>
  /\ pc = "load"
  /\ live = NoLive
  /\ cards = NoCards
  /\ main = NoMain
  /\ notice = "none"
  /\ slept = 0
  /\ reruns = 0
  /\ hist_cache = EmptyDict
  /\ hist_call = NoCall
  /\ hist_seen = EmptyDict
  /\ chart_in = << >>
  /\ chart_out = << >>
  /\ fmt_in = None
  /\ fmt_out = None

\* ------------------------------------------------------------------------
\* The statements of the loop body in the order the script runs them
\* (main.py lines 288-311)
\* ------------------------------------------------------------------------
\* the loop body with the cards block ahead of update_live_data()
LoopOrder_cards_first == << "cards", "refresh", "main", "throttle" >>

\* update_live_data(), the cards block, display_main_content(), time.sleep
LoopOrder == << "refresh", "cards", "main", "throttle" >>

\* the statement an iteration starts with
first_step == LoopOrder[1]

\* the statement that follows a statement that returned normally
step_after(step) ==
  LoopOrder[(CHOOSE i \in 1 .. Len(LoopOrder) - 1 : LoopOrder[i] = step) + 1]

\* ------------------------------------------------------------------------
\* One run of the page script down to the loop (main.py lines 110-164)
\* ------------------------------------------------------------------------
PageRun(clocks, choices) ==
  /\ pc = "load"
  /\ \E ist \in clocks, c \in choices :
       /\ Range(c.additional) \subseteq Range(popular_options(DEFAULT_TICKERS))
       /\ ist_now' = ist
       /\ market' = get_market_status(ist)
       /\ is_market_open' = unpack(market')[1]
       /\ market_status_text' = unpack(market')[2]
       /\ slider_disabled' = ~PyTruth(is_market_open')
       /\ ticker_list' = effective_ticker_list(DEFAULT_TICKERS, c.additional, c.manual)
       /\ refresh_rate' = c.rate
       /\ date_range' = c.dates
  /\ IF session_ready
     THEN UNCHANGED session_vars
     ELSE /\ session_ready' = TRUE
          /\ price_data' = EmptyDict
          /\ last_update' = now
  /\ live' = NoLive /\ cards' = NoCards /\ main' = NoMain
  /\ pc' = first_step
  /\ UNCHANGED << DEFAULT_TICKERS, fmt_vars, now, notice, slept, reruns, hist_vars,
                  chart_vars >>

\* ------------------------------------------------------------------------
\* The loop (main.py lines 286-315)
\* ------------------------------------------------------------------------
\* update_live_data()
LiveRefresh ==
  /\ pc = "refresh"
  /\ IF should_refresh(now, last_update, refresh_rate)
     THEN \E answers \in [1 .. Len(ticker_list) -> LoopLiveAnswers] :
            LET results == [i \in 1 .. Len(ticker_list) |-> get_live_price(answers[i])]
                fresh == new_data(ticker_list, results, Len(ticker_list))
                stored == store_new_data(fresh, price_data, last_update, now)
            IN /\ price_data' = stored.price_data
               /\ last_update' = stored.last_update
               /\ live' = [ ran |-> TRUE, fetched |-> TRUE, replaced |-> Truthy(fresh),
                            at |-> now, since |-> last_update, before |-> price_data,
                            results |-> results ]
     ELSE /\ UNCHANGED << price_data, last_update >>
          /\ live' = [ ran |-> TRUE, fetched |-> FALSE, replaced |-> FALSE,
                       at |-> now, since |-> last_update, before |-> price_data,
                       results |-> << >> ]
  /\ pc' = step_after("refresh")
  /\ UNCHANGED << DEFAULT_TICKERS, fmt_vars, now, session_ready, page_vars, cards, main,
                  notice, slept, reruns, hist_vars, chart_vars >>

\* the live cards block; st.columns(0) raises for an empty watch-list
RenderCards ==
  /\ pc = "cards"
  /\ IF Len(ticker_list) = 0
     THEN /\ cards' = [ ran |-> TRUE, cards |-> << >> ]
          /\ pc' = "except"
     ELSE /\ cards' = [ ran |-> TRUE,
                        cards |-> stock_cards(ticker_list, price_data, Len(ticker_list)) ]
          /\ pc' = step_after("cards")
  /\ UNCHANGED << DEFAULT_TICKERS, fmt_vars, now, session_vars, page_vars, live, main,
                  notice, slept, reruns, hist_vars, chart_vars >>

\* the calls of get_stock_data less than CACHE_TTL seconds old at clock t
Recent(seen, t) == [k \in { x \in DOMAIN seen : t - seen[x].at < CACHE_TTL } |-> seen[k]]

\* One call of the decorated get_stock_data at the current clock.  hist_seen
\* remembers, per argument tuple, when it was last called, what that call
\* returned and when the provider was last asked for it.
CallHistorical(key, answer) ==
  LET r == cached_get_stock_data(hist_cache, key, now, answer)
      prior == DictGet(Recent(hist_seen, now), key, None)
  IN /\ hist_cache' = r.cache
     /\ hist_call' = [ made |-> TRUE, key |-> key, at |-> now, fetched |-> r.fetched,
                       value |-> r.value, prior |-> prior ]
     /\ hist_seen' = DictSet(Recent(hist_seen, now), key,
                             [ at |-> now, value |-> r.value,
                               asked |-> IF r.fetched \/ prior = None THEN now
                                         ELSE prior.asked ])

\* display_main_content()
MainContent ==
  /\ pc = "main"
  /\ \E answer \in LoopHistAnswers, infos \in [1 .. Len(ticker_list) -> LoopMetricAnswers] :
       /\ CallHistorical(<< ticker_list, date_range, "1d" >>, answer)
       /\ IF hist_call'.value # "None"
          THEN LET metrics == [i \in 1 .. Len(ticker_list) |-> get_stock_metrics(infos[i])]
                   rows == comparison_rows(ticker_list, price_data, metrics, Len(ticker_list))
                   column == [i \in DOMAIN rows |-> rows[i].Change]
               IN /\ main' = [ ran |-> TRUE, shown |-> TRUE, metrics |-> metrics,
                               rows |-> rows ]
                  /\ IF rows # << >>
                     THEN chart_in' = column /\ chart_out' = create_comparison_chart(column)
                     ELSE UNCHANGED chart_vars
          ELSE /\ main' = [ ran |-> TRUE, shown |-> FALSE, metrics |-> << >>, rows |-> << >> ]
               /\ UNCHANGED chart_vars
  /\ live' = NoLive /\ cards' = NoCards
  /\ pc' = step_after("main")
  /\ UNCHANGED << DEFAULT_TICKERS, fmt_vars, now, session_vars, page_vars, notice, slept,
                  reruns >>

\* time.sleep(refresh_rate), then the next iteration
Throttle ==
  /\ pc = "throttle"
  /\ \E over \in Overshoots :
       /\ now + refresh_rate + over \in ClockValues
       /\ now' = now + refresh_rate + over
  /\ slept' = refresh_rate
  /\ notice' = "none"
  /\ live' = NoLive /\ cards' = NoCards /\ main' = NoMain
  /\ hist_call' = NoCall /\ chart_in' = << >> /\ chart_out' = << >>
  /\ pc' = first_step
  /\ UNCHANGED << DEFAULT_TICKERS, fmt_vars, session_vars, page_vars, reruns, hist_cache,
                  hist_seen >>

\* except Exception: st.error("Update error: ..."), time.sleep(10)
Except ==
  /\ pc = "except"
  /\ notice' = "Update error"
  /\ slept' = handler_pause(refresh_rate)
  /\ \E over \in Overshoots :
       /\ now + slept' + over \in ClockValues
       /\ now' = now + slept' + over
  /\ live' = NoLive /\ cards' = NoCards /\ main' = NoMain
  /\ hist_call' = NoCall /\ chart_in' = << >> /\ chart_out' = << >>
  /\ pc' = first_step
  /\ UNCHANGED << DEFAULT_TICKERS, fmt_vars, session_vars, page_vars, reruns, hist_cache,
                  hist_seen >>

\* The user touches a widget while the loop pauses: the script run is
\* abandoned and the page script runs again with the session state kept.
Interact ==
  /\ pc \in { "throttle", "except" }
  /\ reruns < MaxReruns
  /\ reruns' = reruns + 1
  /\ slept' = IF pc = "except" THEN handler_pause(refresh_rate) ELSE refresh_rate
  /\ notice' = IF pc = "except" THEN "Update error" ELSE notice
  /\ \E d \in PartialSleeps :
       /\ d <= slept'
       /\ now + d \in ClockValues
       /\ now' = now + d
  /\ pc' = "load"
  /\ UNCHANGED << DEFAULT_TICKERS, fmt_vars, session_vars, page_vars, cycle_vars, hist_vars,
                  chart_vars >>

Next ==
  \/ PageRun(LoopClocks, LoopChoices)
  \/ LiveRefresh
  \/ RenderCards
  \/ MainContent
  \/ Throttle
  \/ Except
  \/ Interact

Spec == Init /\ [][Next]_vars

\* One script run left alone by the user.  The loop is a running thread, so
\* each of its steps is taken when it can be.
LoopStep ==
  \/ PageRun(LoopClocks, LoopChoices)
  \/ LiveRefresh
  \/ RenderCards
  \/ MainContent
  \/ Throttle
  \/ Except

LoopSpec == Init /\ [][LoopStep]_vars /\ WF_vars(LoopStep)

\* ------------------------------------------------------------------------
\* A page run at any reading of the India Standard Time clock
\* ------------------------------------------------------------------------
StatusNext == PageRun(StatusClocks, SidebarChoices)

StatusSpec == Init /\ [][StatusNext]_vars

\* ------------------------------------------------------------------------
\* Calls of get_stock_data over time
\* ------------------------------------------------------------------------
CacheKeys == { << << "RELIANCE.NS" >>, d, "1d" >> : d \in DateRanges }
TickSteps == { 1, 3 }

DirectCall ==
  /\ \E key \in CacheKeys, answer \in CacheHistAnswers : CallHistorical(key, answer)
  /\ UNCHANGED << DEFAULT_TICKERS, fmt_vars, now, session_vars, page_vars, pc, cycle_vars, notice,
                  slept, reruns, chart_vars >>

Tick ==
  /\ \E d \in TickSteps : now + d \in ClockValues /\ now' = now + d
  /\ hist_call' = NoCall
  /\ hist_seen' = Recent(hist_seen, now')
  /\ UNCHANGED << DEFAULT_TICKERS, fmt_vars, session_vars, page_vars, pc, cycle_vars, notice,
                  slept, reruns, hist_cache, chart_vars >>

CacheNext == DirectCall \/ Tick

CacheSpec == Init /\ [][CacheNext]_vars

\* ------------------------------------------------------------------------
\* The comparison chart on any value column
\* ------------------------------------------------------------------------
ChartValues == { -500, -50, 0, 5, 100, 101, 500 }
ChartColumns == UNION { [1 .. n -> ChartValues] : n \in 1 .. MaxChartLen }

BuildChart ==
  /\ \E col \in ChartColumns :
       /\ chart_in' = col
       /\ chart_out' = create_comparison_chart(col)
  /\ UNCHANGED << DEFAULT_TICKERS, fmt_vars, now, session_vars, page_vars, pc, cycle_vars, notice,
                  slept, reruns, hist_vars >>

ChartNext == BuildChart

ChartSpec == Init /\ [][ChartNext]_vars

\* ------------------------------------------------------------------------
\* The market-cap formatter on any market cap
\* ------------------------------------------------------------------------
\* market caps around the thresholds 1e6, 1e9 and 1e12 of format_market_cap,
\* the missing value and the 'N/A' default; among them quotients exactly
\* half-way between two hundredths (1.005, 1.015, 1.125, 2.675, ...), where
\* the double nearest to the quotient decides
CapMillions == { 0, 1, 2, 999, 1000, 1015, 1125, 2675, 3200, 999994, 999995, 999996,
                 999999, 1000000, 1015000, 1125000, 2500000, 2504999, 2505000, 2505001,
                 2675000 }
CapUnits == { 0, 1, 999, 1000, 4321, 4999, 5000, 5001, 15000, 35000, 125000, 675000,
              750000, 999999 }
MarketCaps == { PyBig(hi, lo) : hi \in CapMillions, lo \in CapUnits }
                \cup { None, PyStr(<< "N/A" >>) }

FormatCap ==
  /\ \E market_cap \in MarketCaps :
       /\ fmt_in' = market_cap
       /\ fmt_out' = format_market_cap(market_cap)
  /\ UNCHANGED << DEFAULT_TICKERS, now, session_vars, page_vars, pc, cycle_vars, notice,
                  slept, reruns, hist_vars, chart_vars >>

FormatNext == FormatCap

FormatSpec == Init /\ [][FormatNext]_vars

\* ------------------------------------------------------------------------
\* Properties
\* ------------------------------------------------------------------------
Positions == 1 .. Len(ticker_list)

\* the symbol at position i returned no snapshot in this iteration's fetch
NoSnapshot(i) ==
  \A j \in Positions : ticker_list[j] = ticker_list[i] => live.results[j] = None

\* C1: in a live-refresh step that fetches, every watch-list symbol for which
\* get_live_price returned no snapshot has the price-map entry it had before
\* the step, or is still absent, whatever the other symbols returned.
C1_NoSnapshotKeepsEntry ==
  (live.ran /\ live.fetched) =>
    \A i \in Positions :
      NoSnapshot(i) =>
        DictGet(price_data, ticker_list[i], None) = DictGet(live.before, ticker_list[i], None)

\* C2: whenever a live-refresh step replaces the price map, at least
\* refresh_rate seconds have passed since the previous replacement, or since
\* the session was initialised when there was none.
C2_AtMostOncePerInterval ==
  (live.ran /\ live.replaced) => live.at - live.since >= refresh_rate

C2_Witness ==
  /\ live.ran /\ live.replaced
  /\ live.since > 0
  /\ price_data # live.before

\* C3: the live-refresh step fetches a snapshot for every ticker of the
\* watch-list when at least refresh_rate seconds have passed since
\* last_update, and fetches nothing when fewer have passed.
C3_ElapsedTimeDecides ==
  live.ran =>
    /\ live.fetched <=> (live.at - live.since >= refresh_rate)
    /\ live.fetched => Len(live.results) = Len(ticker_list)

\* the rows of the comparison that carry symbol s
RowsOf(s) == { k \in DOMAIN main.rows : main.rows[k].Symbol = s }

\* the watch-list positions of symbol s whose metrics fetch returned metrics
\* while s has a cached snapshot
QualifyingPositions(s) ==
  { i \in Positions : ticker_list[i] = s /\ s \in DOMAIN price_data /\ main.metrics[i] # None }

\* C4 as stated: the comparison has a row for a symbol only if the symbol has
\* a cached snapshot and metrics in this cycle, and a symbol with both has
\* exactly one row.
C4_ExactlyOneRow ==
  main.shown =>
    \A s \in Range(ticker_list) \cup { main.rows[k].Symbol : k \in DOMAIN main.rows } :
      IF QualifyingPositions(s) # {} THEN Cardinality(RowsOf(s)) = 1 ELSE RowsOf(s) = {}

\* C4 as amended: when the comparison is built, a symbol has one row for each
\* watch-list position at which it stands with a cached snapshot and metrics
\* returned for that position, and no other row.
C4_OneRowPerOccurrence ==
  main.shown =>
    \A s \in Range(ticker_list) \cup { main.rows[k].Symbol : k \in DOMAIN main.rows } :
      Cardinality(RowsOf(s)) = Cardinality(QualifyingPositions(s))

C4_Witness ==
  /\ main.shown
  /\ Len(main.rows) = 2
  /\ main.rows[1].Symbol = main.rows[2].Symbol
  /\ Cardinality(QualifyingPositions(main.rows[1].Symbol)) = 2

\* the pause after which the next iteration can start still lies within the
\* clock readings explored
HasRoom ==
  now + (IF pc = "except" THEN BACKOFF ELSE refresh_rate) \in ClockValues

\* C5: an error escaping an iteration is reported by the loop's handler,
\* which sleeps 10 seconds rather than refresh_rate and lets the next
\* iteration start; after every iteration, failed or not, another begins.
C5_ErrorContained ==
  /\ [][pc = "except" =>
          /\ notice' = "Update error"
          /\ slept' = BACKOFF
          /\ now' >= now + BACKOFF
          /\ pc' = "refresh"]_vars
  /\ []((pc \in { "throttle", "except" } /\ HasRoom) => <>(pc = "refresh" /\ ~live.ran))

C5_Witness ==
  /\ pc = "refresh"
  /\ notice = "Update error"
  /\ slept = BACKOFF
  /\ refresh_rate # BACKOFF

\* the cards drawn for symbol s
CardsOf(s) == { k \in DOMAIN cards.cards : cards.cards[k].ticker = s }

\* C6: when a symbol's live fetch fails in a fetching step, every symbol that
\* returned data has its snapshot recorded and its card drawn in the same
\* iteration, the failing symbol's card is left out or shows the last-known
\* value, and no exception escapes.
C6_OneFailureIsContained ==
  (cards.ran /\ live.fetched /\ \E i \in Positions : live.results[i] = None) =>
    /\ pc # "except"
    /\ \A i \in Positions :
         IF NoSnapshot(i)
         THEN \A k \in CardsOf(ticker_list[i]) :
                /\ ticker_list[i] \in DOMAIN live.before
                /\ cards.cards[k].price = live.before[ticker_list[i]].price
                /\ cards.cards[k].change = live.before[ticker_list[i]].change
                /\ cards.cards[k].pct_change = live.before[ticker_list[i]].pct_change
         ELSE /\ ticker_list[i] \in DOMAIN price_data
              /\ \E j \in Positions :
                   /\ ticker_list[j] = ticker_list[i]
                   /\ live.results[j] # None
                   /\ price_data[ticker_list[i]] = entry_of(live.results[j])
              /\ \E k \in CardsOf(ticker_list[i]) :
                   /\ cards.cards[k].col = i
                   /\ cards.cards[k].price = price_data[ticker_list[i]].price

C6_Witness ==
  /\ pc = "main" /\ cards.ran /\ live.fetched
  /\ \E i, j \in Positions :
       /\ live.results[i] = None /\ NoSnapshot(i)
       /\ ticker_list[i] \in DOMAIN live.before
       /\ CardsOf(ticker_list[i]) = {}
       /\ live.results[j] # None
       /\ CardsOf(ticker_list[j]) # {}

\* what get_market_status told the page run
IsOpen == ItemOf(market, "is_open").bool
StatusText == ItemOf(market, "status").str

\* C7: on a weekday the market is reported open exactly from 09:15:00
\* through 15:29:59 and closed with status "Closed" from 15:30:00 on; on a
\* Saturday or Sunday it is reported closed with status "Closed (Weekend)".
C7_SessionBoundaries ==
  pc # "load" =>
    IF ist_now.weekday >= 5
    THEN ~IsOpen /\ StatusText = << "Closed (Weekend)" >>
    ELSE /\ IsOpen <=> (ist_now.tod >= OPEN_TOD /\ ist_now.tod < CLOSE_TOD)
         /\ ist_now.tod >= CLOSE_TOD => StatusText = << "Closed" >>

\* C8: the sidebar badge shows the status string get_market_status returned
\* and the refresh-rate slider is disabled exactly when it reported is_open
\* false.
C8_BadgeAndSlider ==
  pc # "load" =>
    /\ market_status_text = ItemOf(market, "status")
    /\ slider_disabled <=> ~IsOpen

\* C9 as stated: a call with the arguments of an earlier call made less than
\* CACHE_TTL seconds before returns that call's result without asking the
\* provider; a call with no such earlier call asks the provider.
C9_RecentCallIsReused ==
  hist_call.made =>
    IF hist_call.prior # None
    THEN ~hist_call.fetched /\ hist_call.value = hist_call.prior.value
    ELSE hist_call.fetched

\* C9 as amended: a call returns the stored result without asking the
\* provider exactly when the provider was asked for the same arguments less
\* than CACHE_TTL seconds before; every other call asks the provider.
C9_RecentFetchIsReused ==
  hist_call.made =>
    IF hist_call.prior # None /\ hist_call.at - hist_call.prior.asked < CACHE_TTL
    THEN ~hist_call.fetched /\ hist_call.value = hist_call.prior.value
    ELSE hist_call.fetched

C9_Witness ==
  /\ hist_call.made
  /\ hist_call.prior # None
  /\ hist_call.at - hist_call.prior.at < CACHE_TTL
  /\ hist_call.at - hist_call.prior.asked >= CACHE_TTL
  /\ hist_call.fetched

Abs(x) == IF x < 0 THEN -x ELSE x

\* C10: the chart multiplies the value column by 100 exactly when every value
\* is at most 1 in magnitude, and leaves it alone when some value is larger
\* in magnitude.
C10_ScalesFractionsOnly ==
  chart_in # << >> =>
    IF \A i \in DOMAIN chart_in : Abs(chart_in[i]) <= Hundredths
    THEN chart_out = [i \in DOMAIN chart_in |-> chart_in[i] * 100]
    ELSE chart_out = chart_in

\* ------------------------------------------------------------------------
\* C11 as stated: format_market_cap returns "₹2.50T" for 2_500_000_000_000,
\* "₹3.20B" for 3_200_000_000, "₹0.75M" for 750_000, "₹4,321" for 4_321 and
\* "N/A" for an absent or unknown value.  Violated: 750_000 is below 1e6 and
\* is written in full.
FormatsTheOtherExamples ==
  /\ fmt_in = PyBig(2500000, 0) => fmt_out = PyStr(<< "₹", 2, ".", 5, 0, "T" >>)
  /\ fmt_in = PyBig(3200, 0) => fmt_out = PyStr(<< "₹", 3, ".", 2, 0, "B" >>)
  /\ fmt_in = PyBig(0, 4321) => fmt_out = PyStr(<< "₹", 4, ",", 321 >>)
  /\ (fmt_out # None /\ fmt_in \in { None, PyStr(<< "N/A" >>) }) => fmt_out = PyStr(<< "N/A" >>)

C11_ExamplesAsStated ==
  /\ FormatsTheOtherExamples
  /\ fmt_in = PyBig(0, 750000) => fmt_out = PyStr(<< "₹", 0, ".", 7, 5, "M" >>)

\* C11 amended: format_market_cap returns "₹2.50T" for 2_500_000_000_000,
\* "₹3.20B" for 3_200_000_000, "₹750,000" for 750_000 (the "M" form starts at
\* 1e6), "₹4,321" for 4_321 and "N/A" for an absent or unknown value.
C11_ExamplesOfTheCode ==
  /\ FormatsTheOtherExamples
  /\ fmt_in = PyBig(0, 750000) => fmt_out = PyStr(<< "₹", 750, ",", 0 >>)

C11_Witness ==
  /\ fmt_in = PyBig(0, 750000)
  /\ fmt_out = PyStr(<< "₹", 750, ",", 0 >>)

\* ------------------------------------------------------------------------
\* C12: within every loop iteration, the live-refresh step has completed or
\* been skipped before the cards of that iteration are drawn, and all the
\* cards of that iteration are drawn before its main content is fetched or
\* rendered.
C12_RefreshCardsMain ==
  [][/\ (live'.ran /\ ~live.ran) => (~cards.ran /\ ~main.ran)
     /\ (cards'.ran /\ ~cards.ran) => (live.ran /\ ~main.ran)
     /\ ((main'.ran /\ ~main.ran) \/ (hist_call'.made /\ hist_call' # hist_call))
          => /\ live.ran
             /\ cards.ran
             /\ cards.cards = stock_cards(ticker_list, price_data, Len(ticker_list))]_vars

\* the refresh has fetched, every card is drawn, the main content is not yet
\* fetched
C12_Witness ==
  /\ pc = "main"
  /\ live.ran /\ live.fetched
  /\ cards.ran /\ Len(cards.cards) = 2
  /\ ~main.ran

\* ------------------------------------------------------------------------
\* C13: last_update never decreases; last_update and the price map change
\* only in a live-refresh step that fetched and in which at least one
\* watch-list symbol returned a snapshot.  A skipped refresh, a refresh in
\* which every symbol returned no snapshot, and the card, main-content,
\* throttle and error-pause steps leave both unchanged.
C13_LastUpdateOnlyAdvancesOnSnapshot ==
  [][/\ last_update' >= last_update
     /\ (last_update' # last_update \/ price_data' # price_data)
          => /\ pc = "refresh"
             /\ live'.fetched
             /\ \E i \in DOMAIN live'.results : live'.results[i] # None]_vars

\* a refresh step in which the second symbol alone returned a snapshot has
\* moved last_update forward
C13_Witness ==
  /\ live.ran /\ live.fetched
  /\ Len(live.results) = 2
  /\ live.results[1] = None /\ live.results[2] # None
  /\ last_update = live.at
  /\ last_update > live.since
  /\ price_data # live.before

====
